---- MODULE Spec2Model ----
(***************************************************************************)
(* Model of the stac-fastapi link helpers (stac_fastapi/types/links.py),   *)
(* the extension base class (stac_fastapi/types/extension.py) and the      *)
(* filter extension (stac_fastapi/extensions/core/filter/filter.py).       *)
(*                                                                         *)
(* Strings that are taken apart by the code are modelled by their split on *)
(* "/": a path or an id is the sequence of its "/"-separated segments, so  *)
(* "collections/" + C is <<"collections">> \o C.  A URL is a record of its *)
(* origin (scheme and netloc) and the split of its path.                   *)
(***************************************************************************)
EXTENDS Naturals, Sequences, FiniteSets

VARIABLES stored, res, resource, created, ext, routes, call

vars == <<stored, res, resource, created, ext, routes, call>>

linkVars == <<stored, res, resource, created>>

extVars == <<ext, routes, call>>

----------------------------------------------------------------------------
(* Bounds                                                                  *)

MaxStored == 3

MaxRoutes == 5

----------------------------------------------------------------------------
(* Sequence helpers                                                        *)

Front(s) == SubSeq(s, 1, Len(s) - 1)

Last(s) == s[Len(s)]

RECURSIVE SelectNonEmpty(_)
SelectNonEmpty(s) ==
    IF s = <<>> THEN <<>>
    ELSE IF Head(s) = "" THEN SelectNonEmpty(Tail(s))
    ELSE <<Head(s)>> \o SelectNonEmpty(Tail(s))

----------------------------------------------------------------------------
(* urllib.parse.urljoin(base, url) for a relative url with a non-empty     *)
(* path that does not start with "/" and has no scheme, query or fragment. *)

\* segments[1:-1] = filter(None, segments[1:-1])
FilterMiddle(segments) ==
    IF Len(segments) <= 2 THEN segments
    ELSE <<Head(segments)>>
         \o SelectNonEmpty(SubSeq(segments, 2, Len(segments) - 1))
         \o <<Last(segments)>>

\* the loop that resolves "." and ".." segments
RECURSIVE ResolvePath(_, _)
ResolvePath(segments, resolved) ==
    IF segments = <<>> THEN resolved
    ELSE IF Head(segments) = ".."
         THEN ResolvePath(Tail(segments),
                          IF resolved = <<>> THEN <<>> ELSE Front(resolved))
    ELSE IF Head(segments) = "."
         THEN ResolvePath(Tail(segments), resolved)
    ELSE ResolvePath(Tail(segments), Append(resolved, Head(segments)))

\* '/'.join(resolved_path) or '/', and urlunparse's leading "/" after a netloc
UnparsePath(p) ==
    IF p = <<>> \/ p = <<"">> THEN <<"", "">>
    ELSE IF Head(p) # "" THEN <<"">> \o p
    ELSE p

urljoin(base, url) ==
    LET base_parts == IF Last(base.path) # "" THEN Front(base.path)
                      ELSE base.path
        segments == FilterMiddle(base_parts \o url)
        resolved == ResolvePath(segments, <<>>)
        resolved_path == IF Last(segments) \in {".", ".."}
                         THEN Append(resolved, "")
                         ELSE resolved
    IN  [origin |-> base.origin, path |-> UnparsePath(resolved_path)]

----------------------------------------------------------------------------
(* links.py                                                                *)

INFERRED_LINK_RELS == {"self", "item", "parent", "collection", "root"}

\* the classic slip of removing from the list that is being iterated: the
\* element that follows a removed one is skipped by the loop and kept
RECURSIVE filter_links_skipping(_)
filter_links_skipping(links) ==
    IF links = <<>> THEN <<>>
    ELSE IF Head(links).rel \in INFERRED_LINK_RELS
         THEN IF Len(links) = 1 THEN <<>>
              ELSE <<links[2]>> \o filter_links_skipping(Tail(Tail(links)))
    ELSE <<Head(links)>> \o filter_links_skipping(Tail(links))

\* a filter that forgets the "item" and "root" relations
RECURSIVE filter_links_short(_)
filter_links_short(links) ==
    IF links = <<>> THEN <<>>
    ELSE IF Head(links).rel \in {"self", "parent", "collection"}
         THEN filter_links_short(Tail(links))
    ELSE <<Head(links)>> \o filter_links_short(Tail(links))

RECURSIVE filter_links(_)
filter_links(links) ==
    IF links = <<>> THEN <<>>
    ELSE IF Head(links).rel \notin INFERRED_LINK_RELS
         THEN <<Head(links)>> \o filter_links(Tail(links))
    ELSE filter_links(Tail(links))

Link(rel, type, href, title) ==
    [rel |-> rel, type |-> type, href |-> href, title |-> title]

MimeJson == "application/json"

MimeGeojson == "application/geo+json"

BaseLinks_root(self) == Link("root", MimeJson, self.base_url, "None")

CollectionLinks_self(self) ==
    Link("self", MimeJson,
         urljoin(self.base_url, <<"collections">> \o self.collection_id),
         "None")

CollectionLinks_parent(self) == Link("parent", MimeJson, self.base_url, "None")

CollectionLinks_items(self) ==
    Link("items", MimeGeojson,
         urljoin(self.base_url,
                 <<"collections">> \o self.collection_id \o <<"items">>),
         "None")

\* the links in another order
CollectionLinks_create_links_reordered(self) ==
    <<CollectionLinks_self(self), CollectionLinks_parent(self),
      BaseLinks_root(self), CollectionLinks_items(self)>>

CollectionLinks_create_links(self) ==
    <<CollectionLinks_self(self), CollectionLinks_parent(self),
      CollectionLinks_items(self), BaseLinks_root(self)>>

ItemLinks_self(self) ==
    Link("self", MimeGeojson,
         urljoin(self.base_url,
                 <<"collections">> \o self.collection_id
                     \o <<"items">> \o self.item_id),
         "None")

ItemLinks_parent(self) ==
    Link("parent", MimeJson,
         urljoin(self.base_url, <<"collections">> \o self.collection_id),
         "None")

ItemLinks_collection(self) ==
    Link("collection", MimeJson,
         urljoin(self.base_url, <<"collections">> \o self.collection_id),
         "None")

ItemLinks_tiles(self) ==
    Link("alternate", MimeJson,
         urljoin(self.base_url,
                 <<"collections">> \o self.collection_id
                     \o <<"items">> \o self.item_id \o <<"tiles">>),
         "tiles")

\* the commented-out links.append(self.tiles()) enabled
ItemLinks_create_links_tiles(self) ==
    <<ItemLinks_self(self), ItemLinks_parent(self),
      ItemLinks_collection(self), BaseLinks_root(self),
      ItemLinks_tiles(self)>>

ItemLinks_create_links(self) ==
    <<ItemLinks_self(self), ItemLinks_parent(self),
      ItemLinks_collection(self), BaseLinks_root(self)>>

----------------------------------------------------------------------------
(* Inputs of the link helpers                                              *)

Url(origin, path) == [origin |-> origin, path |-> path]

\* "http://h", "http://h/api", "http://h/api/", "http://h/api/v1"
BaseUrls ==
    {Url("http://h", p) :
        p \in {<<"">>, <<"", "api">>, <<"", "api", "">>, <<"", "api", "v1">>}}

\* "c1", "a/b", ".."
CollectionIds == {<<"c1">>, <<"a", "b">>, <<"..">>}

\* "i1", "."
ItemIds == {<<"i1">>, <<".">>}

StoredRels ==
    {"self", "item", "parent", "collection", "root", "items", "license"}

LinkNames == <<"l1", "l2", "l3", "l4", "l5", "l6">>

\* a stored link dict: its rel and an href that tells the links apart
StoredLink(rel, i) ==
    [rel |-> rel, href |-> Url("http://ext", <<"", LinkNames[i]>>)]

StoredLists ==
    UNION {{[i \in 1..n |-> StoredLink(rels[i], i)] : rels \in [1..n -> StoredRels]} :
              n \in 0..MaxStored}

NoResource ==
    [kind |-> "none", base_url |-> Url("", <<"">>), collection_id |-> <<"">>,
     item_id |-> <<"">>]

----------------------------------------------------------------------------
(* Operations of the link helpers                                          *)

InitLinks ==
    /\ stored \in StoredLists
    /\ res = <<>>
    /\ resource = NoResource
    /\ created = <<>>

\* filter_links applied to the stored links, then to its own result
FilterLinks ==
    /\ Len(res) < 2
    /\ res' = Append(res, filter_links(IF res = <<>> THEN stored ELSE Last(res)))
    /\ UNCHANGED <<stored, resource, created>>

\* CollectionLinks(collection_id, base_url).create_links(), for the one
\* resource of the response
CollectionCreateLinks ==
    /\ resource.kind = "none"
    /\ \E B \in BaseUrls, C \in CollectionIds :
        LET self == [kind |-> "collection", base_url |-> B,
                     collection_id |-> C, item_id |-> <<"">>]
        IN  /\ resource' = self
            /\ created' = CollectionLinks_create_links(self)
            /\ UNCHANGED <<stored, res>>

\* ItemLinks(collection_id, base_url, item_id).create_links(), for the one
\* resource of the response
ItemCreateLinks ==
    /\ resource.kind = "none"
    /\ \E B \in BaseUrls, C \in CollectionIds, I \in ItemIds :
        LET self == [kind |-> "item", base_url |-> B,
                     collection_id |-> C, item_id |-> I]
        IN  /\ resource' = self
            /\ created' = ItemLinks_create_links(self)
            /\ UNCHANGED <<stored, res>>

NextLinks ==
    \/ FilterLinks /\ UNCHANGED extVars
    \/ CollectionCreateLinks /\ UNCHANGED extVars
    \/ ItemCreateLinks /\ UNCHANGED extVars

----------------------------------------------------------------------------
(* extension.py and filter.py                                              *)

\* a client object: which of the two client base classes it is an instance
\* of, and whether it has a get_queryables attribute (both base classes
\* declare it)
Client(isAsync, isSync, hasFunc) ==
    [isAsync |-> isAsync, isSync |-> isSync, has_get_queryables |-> hasFunc]

AsyncClient == Client(TRUE, FALSE, TRUE)

SyncClient == Client(FALSE, TRUE, TRUE)

BothClient == Client(TRUE, TRUE, TRUE)

DuckClient == Client(FALSE, FALSE, TRUE)

BareClient == Client(FALSE, FALSE, FALSE)

Clients == {AsyncClient, SyncClient, BothClient, DuckClient, BareClient}

Verbs == {"GET", "POST", "PUT", "DELETE"}

NoVerb == "<omitted>"

Returned(value) == [exc |-> "none", value |-> value]

Raised(exc) == [exc |-> exc, value |-> "None"]

\* getattr(self, name) for the names of HTTP verbs: GET and POST are class
\* attributes of every ApiExtension, other verbs are not attributes
getattr(self, name) ==
    IF name = "GET" THEN Returned(self.GET)
    ELSE IF name = "POST" THEN Returned(self.POST)
    ELSE Raised("AttributeError")

get_request_model(self, verb) ==
    getattr(self, IF verb = NoVerb THEN "GET" ELSE verb)

Endpoint(adapter, func, request_type, response_class) ==
    [adapter |-> adapter, func |-> func, request_type |-> request_type,
     response_class |-> response_class]

\* the isinstance checks in the other order
FilterExtension_create_endpoint_sync_first(self, func, request_type) ==
    IF self.client.isSync
    THEN Returned(Endpoint("sync", func, request_type, self.response_class))
    ELSE IF self.client.isAsync
    THEN Returned(Endpoint("async", func, request_type, self.response_class))
    ELSE Raised("NotImplementedError")

\* the final raise replaced by a fall-through to the synchronous adapter
FilterExtension_create_endpoint_no_raise(self, func, request_type) ==
    IF self.client.isAsync
    THEN Returned(Endpoint("async", func, request_type, self.response_class))
    ELSE Returned(Endpoint("sync", func, request_type, self.response_class))

FilterExtension_create_endpoint(self, func, request_type) ==
    IF self.client.isAsync
    THEN Returned(Endpoint("async", func, request_type, self.response_class))
    ELSE IF self.client.isSync
    THEN Returned(Endpoint("sync", func, request_type, self.response_class))
    ELSE Raised("NotImplementedError")

Route(name, path, methods, endpoint) ==
    [name |-> name, path |-> path, methods |-> methods,
     endpoint |-> endpoint, tags |-> <<>>]

\* APIRouter.add_api_route
add_api_route(router, name, path, methods, endpoint) ==
    Append(router, Route(name, path, methods, endpoint))

\* an include_router that skips the paths the application already routes
include_router_guarded(app, router, tags) ==
    LET have == {app[i].path : i \in 1..Len(app)}
        fresh == SelectSeq(router, LAMBDA r : r.path \notin have)
    IN  app \o [i \in 1..Len(fresh) |-> [fresh[i] EXCEPT !.tags = tags \o @]]

\* an include_router that takes only the first route of the router
include_router_first(app, router, tags) ==
    app \o [i \in 1..1 |-> [router[i] EXCEPT !.tags = tags \o @]]

\* FastAPI.include_router: every route of the router is added, in order,
\* after the routes of the application, with the tags of the call
include_router(app, router, tags) ==
    app \o [i \in 1..Len(router) |-> [router[i] EXCEPT !.tags = tags \o @]]

\* self.client.get_queryables
client_get_queryables(self) ==
    IF self.client.has_get_queryables THEN Returned("get_queryables")
    ELSE Raised("AttributeError")

\* FilterExtension.register(app): the routing table of the application
\* after the call and the exception the call raised, if any
FilterExtension_register(self, app) ==
    LET router == <<>>
        f1 == client_get_queryables(self)
        e1 == FilterExtension_create_endpoint(self, f1.value, "EmptyRequest")
        router1 == add_api_route(router, "Queryables", "/queryables",
                                 {"GET"}, e1.value)
        f2 == client_get_queryables(self)
        e2 == FilterExtension_create_endpoint(self, f2.value, "CollectionUri")
        router2 == add_api_route(router1, "Collection Queryables",
                                 "/collections/{collectionId}/queryables",
                                 {"GET"}, e2.value)
    IN  IF f1.exc # "none" THEN [app |-> app, exc |-> f1.exc]
        ELSE IF e1.exc # "none" THEN [app |-> app, exc |-> e1.exc]
        ELSE IF f2.exc # "none" THEN [app |-> app, exc |-> f2.exc]
        ELSE IF e2.exc # "none" THEN [app |-> app, exc |-> e2.exc]
        ELSE [app |-> include_router(app, router2, <<"Filter Extension">>),
              exc |-> "none"]

----------------------------------------------------------------------------
(* Inputs and operations of the extension                                  *)

RequestModels == {"None", "FilterExtensionRequest"}

ResponseClasses == {"JSONResponse", "ORJSONResponse"}

\* a route the application had before the extension was registered
CoreRoute ==
    [name |-> "Landing Page", path |-> "/", methods |-> {"GET"},
     endpoint |-> Endpoint("async", "landing_page", "EmptyRequest",
                           "JSONResponse"),
     tags |-> <<>>]

Call(op, arg, ret, exc) == [op |-> op, arg |-> arg, ret |-> ret, exc |-> exc]

NoCall == Call("none", "None", "None", "none")

InitExt ==
    /\ ext \in [client : Clients, GET : RequestModels, POST : RequestModels,
                response_class : ResponseClasses]
    /\ routes \in {<<>>, <<CoreRoute>>}
    /\ call = NoCall

Register ==
    /\ Len(routes) + 2 <= MaxRoutes
    /\ LET r == FilterExtension_register(ext, routes)
       IN  /\ routes' = r.app
           /\ call' = Call("register", "app", "None", r.exc)
    /\ UNCHANGED ext

GetRequestModel ==
    \E verb \in Verbs \cup {NoVerb} :
        LET r == get_request_model(ext, verb)
        IN  /\ call' = Call("get_request_model", verb, r.value, r.exc)
            /\ UNCHANGED <<ext, routes>>

NextExt ==
    \/ Register /\ UNCHANGED linkVars
    \/ GetRequestModel /\ UNCHANGED linkVars

----------------------------------------------------------------------------
(* Specifications                                                          *)

\* the link helpers, with an idle extension
LinkInit ==
    /\ InitLinks
    /\ ext = [client |-> SyncClient, GET |-> "None", POST |-> "None",
              response_class |-> "JSONResponse"]
    /\ routes = <<>>
    /\ call = NoCall

LinkSpec == LinkInit /\ [][NextLinks]_vars

\* the extension, with idle link helpers
ExtInit ==
    /\ InitExt
    /\ stored = <<>>
    /\ res = <<>>
    /\ resource = NoResource
    /\ created = <<>>

ExtSpec == ExtInit /\ [][NextExt]_vars

----------------------------------------------------------------------------
(* Properties of the link helpers, checked under LinkSpec                  *)

Rels(links) == [i \in 1..Len(links) |-> links[i].rel]

\* C1: CollectionLinks(C, B).create_links() returns exactly 4 links, in the
\* order self, parent, items, root; the href of self is
\* urljoin(B, "collections/" + C), the href of items is
\* urljoin(B, "collections/" + C + "/items"), the hrefs of parent and root
\* are B.
C1_CollectionCreateLinks ==
    resource.kind = "collection" =>
        LET B == resource.base_url
            C == resource.collection_id
        IN  /\ Len(created) = 4
            /\ Rels(created) = <<"self", "parent", "items", "root">>
            /\ created[1].href = urljoin(B, <<"collections">> \o C)
            /\ created[3].href = urljoin(B, <<"collections">> \o C \o <<"items">>)
            /\ created[2].href = B
            /\ created[4].href = B

\* a collection built on "http://h/api/v1": the join replaces the last
\* segment of the base, "http://h/api/collections/c1"
C1_Witness ==
    /\ resource.kind = "collection"
    /\ resource.base_url = Url("http://h", <<"", "api", "v1">>)
    /\ resource.collection_id = <<"c1">>
    /\ Len(created) = 4
    /\ created[1].href = Url("http://h", <<"", "api", "collections", "c1">>)
    /\ created[3].href =
           Url("http://h", <<"", "api", "collections", "c1", "items">>)

\* C2: ItemLinks(C, B, I).create_links() returns exactly 4 links, in the
\* order self, parent, collection, root; the href of self is
\* urljoin(B, "collections/" + C + "/items/" + I), the hrefs of parent and
\* collection are urljoin(B, "collections/" + C), the href of root is B; no
\* link of the result is the tiles (alternate) link.
C2_ItemCreateLinks ==
    resource.kind = "item" =>
        LET B == resource.base_url
            C == resource.collection_id
            I == resource.item_id
        IN  /\ Len(created) = 4
            /\ Rels(created) = <<"self", "parent", "collection", "root">>
            /\ created[1].href =
                   urljoin(B, <<"collections">> \o C \o <<"items">> \o I)
            /\ created[2].href = urljoin(B, <<"collections">> \o C)
            /\ created[3].href = urljoin(B, <<"collections">> \o C)
            /\ created[4].href = B
            /\ \A i \in 1..Len(created) :
                   created[i].rel # "alternate" /\ created[i].title # "tiles"

\* an item of collection "a/b" built on "http://h/api/"
C2_Witness ==
    /\ resource.kind = "item"
    /\ resource.base_url = Url("http://h", <<"", "api", "">>)
    /\ resource.collection_id = <<"a", "b">>
    /\ resource.item_id = <<"i1">>
    /\ Len(created) = 4
    /\ created[1].href =
           Url("http://h", <<"", "api", "collections", "a", "b", "items", "i1">>)
    /\ created[2].href = Url("http://h", <<"", "api", "collections", "a", "b">>)

\* the positions of the links of a list whose rel is not an inferred one
KeptPositions(links) ==
    {i \in 1..Len(links) :
        links[i].rel \notin {"self", "item", "parent", "collection", "root"}}

\* C3: filter_links returns exactly the subsequence of the links whose rel
\* is not in {self, item, parent, collection, root}: each such link is
\* kept, every other link is removed, and the kept links are in the order
\* of the input.
C3_FilterLinksSubsequence ==
    res # <<>> =>
        LET kept == KeptPositions(stored)
        IN  /\ Len(res[1]) = Cardinality(kept)
            /\ \A i \in kept :
                   res[1][Cardinality({k \in kept : k <= i})] = stored[i]

\* [license, root, items] is filtered to [license, items]
C3_Witness ==
    /\ Len(stored) = 3
    /\ Rels(stored) = <<"license", "root", "items">>
    /\ res # <<>>
    /\ res[1] = <<stored[1], stored[3]>>

\* C4: filter_links is idempotent, filter_links(filter_links(L)) =
\* filter_links(L).
C4_FilterLinksIdempotent == Len(res) = 2 => res[2] = res[1]

\* filter_links has been applied twice to a list it shortens without
\* emptying it
C4_Witness ==
    /\ Len(res) = 2
    /\ res[1] # <<>>
    /\ Len(res[1]) < Len(stored)

\* C5: filter_links(S) followed by the create_links() of a collection or an
\* item has at most one link for each relation create_links() generates:
\* filter_links(S) has no link whose relation create_links() emits.
C5_MergeWithoutDuplication ==
    (res # <<>> /\ resource.kind # "none") =>
        \A i \in 1..Len(res[1]), j \in 1..Len(created) :
            res[1][i].rel # created[j].rel

----------------------------------------------------------------------------
(* Properties of the extension, checked under ExtSpec                      *)

NeitherClient == ~ext.client.isAsync /\ ~ext.client.isSync

QueryablesPath == "/queryables"

CollectionQueryablesPath == "/collections/{collectionId}/queryables"

Count(table, path) == Cardinality({i \in 1..Len(table) : table[i].path = path})

\* C6 as stated: register with a client that is neither an asynchronous nor
\* a synchronous filters client raises NotImplementedError and leaves the
\* routing table of the application as it was.
C6_RegisterRaisesNotImplemented ==
    [][(Register /\ NeitherClient) =>
           (call'.exc = "NotImplementedError" /\ routes' = routes)]_vars

\* C6 as amended: register with a client that is neither an asynchronous
\* nor a synchronous filters client raises and leaves the routing table of
\* the application as it was; the exception is NotImplementedError when the
\* client has a get_queryables attribute and AttributeError when not.
C6_RegisterAllOrNothing ==
    [][(Register /\ NeitherClient) =>
           /\ routes' = routes
           /\ call'.exc = IF ext.client.has_get_queryables
                          THEN "NotImplementedError"
                          ELSE "AttributeError"]_vars

\* register has raised NotImplementedError on an application with a route
C6_Witness ==
    /\ NeitherClient
    /\ call.op = "register"
    /\ call.exc = "NotImplementedError"
    /\ routes = <<CoreRoute>>

\* C7: get_request_model(verb) returns the model bound for the verb, None
\* when no model is bound for it, for every verb string; no argument
\* behaves as "GET".
C7_GetRequestModelTotal ==
    call.op = "get_request_model" =>
        LET verb == IF call.arg = NoVerb THEN "GET" ELSE call.arg
        IN  /\ call.exc = "none"
            /\ call.ret = IF verb = "GET" THEN ext.GET
                          ELSE IF verb = "POST" THEN ext.POST
                          ELSE "None"

\* C8: a successful register adds exactly two route bindings after the
\* routes the application had, which stay as they were: GET /queryables
\* with request type EmptyRequest and GET
\* /collections/{collectionId}/queryables with request type CollectionUri,
\* both on the get_queryables of the client with the response class of the
\* extension.
C8_RegisterAddsTwoRoutes ==
    [][(Register /\ call'.exc = "none") =>
           /\ Len(routes') = Len(routes) + 2
           /\ SubSeq(routes', 1, Len(routes)) = routes
           /\ LET q == routes'[Len(routes) + 1]
                  c == routes'[Len(routes) + 2]
              IN  /\ q.path = QueryablesPath
                  /\ q.methods = {"GET"}
                  /\ q.endpoint.request_type = "EmptyRequest"
                  /\ c.path = CollectionQueryablesPath
                  /\ c.methods = {"GET"}
                  /\ c.endpoint.request_type = "CollectionUri"
                  /\ \A r \in {q, c} :
                         /\ r.endpoint.func = "get_queryables"
                         /\ r.endpoint.response_class = ext.response_class]_vars

\* a default (JSON) extension registered on an application with a route
C8_Witness ==
    /\ call.op = "register"
    /\ call.exc = "none"
    /\ ext.response_class = "JSONResponse"
    /\ Len(routes) = 3
    /\ routes[1] = CoreRoute
    /\ routes[2].path = QueryablesPath
    /\ routes[3].path = CollectionQueryablesPath

\* C9 as stated: a second register on the same application leaves the
\* routing table as it was after the first.
C9_RegisterIdempotent ==
    [][(Register /\ Count(routes, QueryablesPath) > 0) => routes' = routes]_vars

\* C9 as amended: register is not guarded against a second call; a second
\* successful register on the same application adds the /queryables and
\* /collections/{collectionId}/queryables bindings again.
C9_RegisterAddsAgain ==
    [][(Register /\ call'.exc = "none" /\ Count(routes, QueryablesPath) > 0) =>
           /\ Count(routes', QueryablesPath) = Count(routes, QueryablesPath) + 1
           /\ Count(routes', CollectionQueryablesPath) =
                  Count(routes, CollectionQueryablesPath) + 1]_vars

\* the application routes both paths twice
C9_Witness ==
    /\ call.op = "register"
    /\ Count(routes, QueryablesPath) = 2
    /\ Count(routes, CollectionQueryablesPath) = 2

\* C10: the routes of a register call use the adapter of the client's
\* capability: the asynchronous one for an AsyncBaseFiltersClient, also
\* when it is a BaseFiltersClient too, the synchronous one for a client
\* that is only a BaseFiltersClient, and the same one for both routes.
C10_AdapterMatchesClient ==
    \A i \in 1..Len(routes) :
        routes[i].path \in {QueryablesPath, CollectionQueryablesPath} =>
            /\ ext.client.isAsync \/ ext.client.isSync
            /\ ext.client.isAsync => routes[i].endpoint.adapter = "async"
            /\ ~ext.client.isAsync => routes[i].endpoint.adapter = "sync"

\* a client of both classes has been registered with the asynchronous adapter
C10_Witness ==
    /\ ext.client = BothClient
    /\ Len(routes) >= 2
    /\ routes[Len(routes) - 1].endpoint.adapter = "async"
    /\ routes[Len(routes)].endpoint.adapter = "async"

====
